---- MODULE Spec2Model ----
(***************************************************************************)
(* The /chat handler of backend/app.py (handle_chat) as a state machine.   *)
(*                                                                         *)
(* The two MongoDB collections are sequences of documents in insertion     *)
(* order; update_one / find_one act on the first document that matches the *)
(* filter.  Every request in flight is a record holding the handler's      *)
(* local variables and its position (pc); one action is one collaborator   *)
(* call (store, LLM gateway, embedding, socket emit) together with the     *)
(* local computation that follows it up to the next call.                  *)
(*                                                                         *)
(* Texts are sequences of tokens.  A token standing for a JSON document is *)
(* looked up in JsonDocs by json.loads; every other token is plain text.   *)
(***************************************************************************)
EXTENDS Integers, Sequences, FiniteSets, TLC

\* ------------------------------------------------------------------ bounds
NumUsers == 2
NumThreadIds == 1
MaxTurns == 4
MaxConcTurns == 3
MaxInFlight == 2

Users == 1..NumUsers
ThreadIds == 1..NumThreadIds
Handlers == 1..MaxInFlight

\* A missing JSON field of the request body: data.get(...) gives None.
Missing == 0

\* ------------------------------------------------------ python values
NoneVal == [kind |-> "None"]
Dict(f) == [kind |-> "dict", val |-> f]
List(s) == [kind |-> "list", val |-> s]
Num(n) == [kind |-> "num", val |-> n]

EmptyMap == << >>

StrV(s) == [t |-> "str", v |-> s]
NumV(n) == [t |-> "num", v |-> n]

\* Python truthiness of a parsed JSON value (None, {} and [] are falsy).
Truthy(x) ==
  CASE x.kind = "None" -> FALSE
    [] x.kind = "dict" -> DOMAIN x.val # {}
    [] x.kind = "list" -> Len(x.val) > 0
    [] x.kind = "num" -> x.val # 0

\* ------------------------------------------------------------ str methods
WS == {" ", "\n"}

RECURSIVE LStrip(_)
LStrip(s) == IF s # << >> /\ Head(s) \in WS THEN LStrip(Tail(s)) ELSE s

RECURSIVE RStrip(_)
RStrip(s) ==
  IF s # << >> /\ s[Len(s)] \in WS THEN RStrip(SubSeq(s, 1, Len(s) - 1)) ELSE s

\* str.strip()
Strip(s) == RStrip(LStrip(s))

\* str.replace(tok, empty)
Remove(s, tok) == SelectSeq(s, LAMBDA x : x # tok)

\* the `in` operator on str: a marker token occurs in the text
Contains(s, tok) == \E i \in 1..Len(s) : s[i] = tok

UpperChar(c) == CASE c = "n" -> "N" [] c = "y" -> "Y" [] OTHER -> c
LowerChar(c) == CASE c = "N" -> "n" [] c = "Y" -> "y" [] OTHER -> c

\* Capitalize that leaves the characters after the first as they are.
UpperFirst(s) ==
  [i \in 1..Len(s) |-> IF i = 1 THEN UpperChar(s[i]) ELSE s[i]]

\* str.capitalize(): first character upper-cased, the rest lower-cased
Capitalize(s) ==
  [i \in 1..Len(s) |-> IF i = 1 THEN UpperChar(s[i]) ELSE LowerChar(s[i])]

\* ------------------------------------------------------ JSON documents
SchemaReq ==
  [intentName |-> "FindTutor_v1",
   displayName |-> "Find Tutor",
   description |-> "User wants to find a tutor",
   slots |-> << [name |-> "city", type |-> "string", required |-> TRUE],
                [name |-> "budget", type |-> "number", required |-> FALSE] >>]

SchemaOpt ==
  [intentName |-> "Chat_v1",
   displayName |-> "Chat",
   description |-> "User wants to talk",
   slots |-> << [name |-> "topic", type |-> "string", required |-> FALSE] >>]

SlotsCity == [city |-> StrV(<<"n", "Y">>)]
SlotsCityBudget == [city |-> StrV(<<"n", "Y">>), budget |-> NumV(7)]

JsonDocs ==
  [tok \in {"{schema:req}", "{schema:opt}", "[1]", "{}", "{fs:city}",
            "{fs:city,budget}", "5"} |->
     CASE tok = "{schema:req}" -> Dict(SchemaReq)
       [] tok = "{schema:opt}" -> Dict(SchemaOpt)
       [] tok = "[1]" -> List(<<1>>)
       [] tok = "{}" -> Dict(EmptyMap)
       [] tok = "{fs:city}" -> Dict([filledSlots |-> SlotsCity])
       [] tok = "{fs:city,budget}" -> Dict([filledSlots |-> SlotsCityBudget])
       [] tok = "5" -> Num(5)]

\* json.loads: surrounding whitespace is accepted, anything else around or
\* instead of one document raises JSONDecodeError (ok = FALSE).
JsonLoads(s) ==
  LET body == Strip(s)
  IN  IF Len(body) = 1 /\ body[1] \in DOMAIN JsonDocs
      THEN [ok |-> TRUE, value |-> JsonDocs[body[1]]]
      ELSE [ok |-> FALSE, value |-> NoneVal]

\* the two chained str.replace calls that drop the code-fence markup
StripFences(s) == Remove(Remove(s, "<fence json>"), "<fence>")

\* ------------------------------------------------------- LLM gateway
\* What model.generate_content can produce: an exception, or a raw text.
Raised == [ok |-> FALSE, text |-> << >>]
Raw(s) == [ok |-> TRUE, text |-> s]

\* generate_gemini_content: the stripped text, or None on any exception.
GenerateGeminiContent(raw) ==
  IF raw.ok THEN [ok |-> TRUE, text |-> Strip(raw.text)] ELSE Raised

\* Python truthiness of the gateway result (None and the empty text are falsy).
HasText(r) == r.ok /\ r.text # << >>

AnalysisResponses ==
  {Raised, Raw(<<"CONFIRMED", "\n">>), Raw(<<"Sure,", "CONFIRMED">>),
   Raw(<<"CORRECTION">>)}

SchemaResponses ==
  {Raised, Raw(<<"UNCLEAR">>), Raw(<<"Here", "you", "go">>),
   Raw(<<"<fence json>", "\n", "{schema:req}", "\n", "<fence>">>),
   Raw(<<"{schema:opt}">>), Raw(<<"[1]">>)}

ExtractionResponses ==
  {Raised, Raw(<<"no", "slots">>), Raw(<<"{}">>), Raw(<<"{fs:city}">>),
   Raw(<<"<fence json>", "{fs:city,budget}", "<fence>">>), Raw(<<"5">>)}

GuidanceResponses ==
  {Raised, Raw(<<"Which", "city?">>),
   Raw(<<"Great!", "ALL_SLOTS_FILLED", "\n">>)}

SummaryResponses == {Raised, Raw(<<"Is", "that", "all", "correct?">>)}

FallbackResponses == {Raised, Raw(<<"Hello!">>)}

EmbeddingResponses == {Raised, Raw(<<"vec">>)}

\* ------------------------------------------------------- fixed replies
AlreadyFinalizedReply == <<"It looks like we've already finalized your request.">>
SuccessReply == <<"Perfect! I've posted your request on your behalf.">>
ReevaluateReply == <<"Understood. Thanks for the correction. One moment...">>
ClarificationReply == <<"Could you tell me a bit more?">>
ApologyReply == <<"I'm sorry, I'm having trouble processing that request.">>

\* ------------------------------------------------------------- state
VARIABLES threads, intents, emitted, req, turns, backfill,
          confirmation_prompt

vars == <<threads, intents, emitted, req, turns, backfill,
          confirmation_prompt>>

\* The document $setOnInsert creates.
NewThread(u, t) ==
  [threadId |-> t, userId |-> u, messages |-> << >>,
   dynamic_schema |-> NoneVal, filled_slots |-> EmptyMap,
   status |-> "GATHERING"]

\* A handler that holds no request.
Idle ==
  [pc |-> "idle", user_id |-> Missing, thread_id |-> Missing,
   message_content |-> << >>, loaded |-> NewThread(Missing, Missing),
   messages |-> << >>, dynamic_schema |-> NoneVal,
   thread_status |-> "GATHERING", user_decision |-> Raised,
   filled_slots |-> EmptyMap, new_intent |-> EmptyMap,
   ai_response_content |-> Raw(<< >>), http |-> 0,
   cleaned_response_text |-> Raised,
   next_step_response |-> Raised, branch_reply |-> Raw(<< >>),
   calls |-> << >>, failed |-> {}, malformed |-> FALSE, wrote |-> {},
   inserted |-> FALSE, emits |-> 0]

\* The backfill script before a pass and between passes.
BackfillIdle ==
  [pc |-> "idle", all_records |-> << >>, i |-> 0,
   vector_embedding |-> Raised, now |-> 0, passes |-> 0]

Init ==
  /\ threads = << >>
  /\ intents = << >>
  /\ emitted = << >>
  /\ req = [h \in Handlers |-> Idle]
  /\ turns = 0
  /\ backfill = BackfillIdle
  /\ confirmation_prompt = NoneVal


\* ------------------------------------------------------ document store
\* Documents matched by the filter {"threadId": t}.
MatchThreadId(coll, t) == {i \in 1..Len(coll) : coll[i].threadId = t}

\* Documents matched by the filter {"threadId": t, "userId": u}.
MatchThreadIdAndUser(coll, t, u) ==
  {i \in 1..Len(coll) : coll[i].threadId = t /\ coll[i].userId = u}

\* The first matching document in the collection's order.
First(S) == CHOOSE i \in S : \A j \in S : i <= j

\* threads_collection.find_one_and_update(..., upsert=True,
\* return_document=True): the collection afterwards, and the document.
FindOneAndUpdate(coll, t, u) ==
  LET m == MatchThreadIdAndUser(coll, t, u)
  IN  IF m = {}
      THEN [coll |-> Append(coll, NewThread(u, t)), doc |-> NewThread(u, t)]
      ELSE [coll |-> coll, doc |-> coll[First(m)]]

\* threads_collection.update_one({"threadId": t}, {"$set": fields})
UpdateOne(coll, t, fields) ==
  LET m == MatchThreadId(coll, t)
  IN  IF m = {}
      THEN coll
      ELSE [coll EXCEPT ![First(m)] =
              [k \in DOMAIN @ |-> IF k \in DOMAIN fields THEN fields[k] ELSE @[k]]]

\* IntentExists with the existence check dropped.
IntentNeverExists(coll, t) == FALSE

\* intents_collection.find_one({"threadId": t}) is not None
IntentExists(coll, t) == MatchThreadId(coll, t) # {}

\* --------------------------------------------------- handler, local steps
\* all([user_id, thread_id, message_content])
\* AllFieldsPresent without the test of the message.
UserAndThreadPresent(u, t, m) == u # Missing /\ t # Missing

AllFieldsPresent(u, t, m) == u # Missing /\ t # Missing /\ m # << >>

\* The handler's except clause: HTTP 500, nothing more is written.
ServiceFailure(r) == [r EXCEPT !.pc = "done", !.http = 500]

\* RequiredSlotsExist with the required flag forgotten: any slot counts.
AnySlotExists(schema) ==
  "slots" \in DOMAIN schema.val /\ Len(schema.val.slots) > 0

\* any(s.get('required', False) for s in dynamic_schema.get('slots', []))
RequiredSlotsExist(schema) ==
  LET slots == IF "slots" \in DOMAIN schema.val THEN schema.val.slots ELSE << >>
  IN  \E i \in 1..Len(slots) :
        "required" \in DOMAIN slots[i] /\ slots[i].required

\* get_slot_extraction_prompt reads s['name'], s['type'] and
\* dynamic_schema['displayName']; a missing key raises KeyError.
ExtractionPromptBuilds(schema) ==
  /\ "displayName" \in DOMAIN schema.val
  /\ \A i \in 1..Len(schema.val.slots) :
       {"name", "type"} \subseteq DOMAIN schema.val.slots[i]

\* WithSchema without its else branch: no schema, nothing more is done.
WithSchemaOnly(r) ==
  IF Truthy(r.dynamic_schema)
  THEN IF r.dynamic_schema.kind # "dict"
       THEN ServiceFailure(r)
       ELSE IF ~RequiredSlotsExist(r.dynamic_schema)
            THEN [r EXCEPT !.ai_response_content = Raw(ClarificationReply),
                           !.pc = "save"]
            ELSE IF ExtractionPromptBuilds(r.dynamic_schema)
                 THEN [r EXCEPT !.pc = "extract"]
                 ELSE ServiceFailure(r)
  ELSE [r EXCEPT !.pc = "save"]

\* `if dynamic_schema:` and what follows it up to the next call.
WithSchema(r) ==
  IF Truthy(r.dynamic_schema)
  THEN IF r.dynamic_schema.kind # "dict"
       THEN ServiceFailure(r)
       ELSE IF ~RequiredSlotsExist(r.dynamic_schema)
            THEN [r EXCEPT !.ai_response_content = Raw(ClarificationReply),
                           !.pc = "save"]
            ELSE IF ExtractionPromptBuilds(r.dynamic_schema)
                 THEN [r EXCEPT !.pc = "extract"]
                 ELSE ServiceFailure(r)
  ELSE [r EXCEPT !.pc = "fallback"]

\* `if thread_status == "GATHERING":` on the handler's local thread_status,
\* then `if not dynamic_schema:`.
GatheringBlock(r) ==
  IF r.thread_status = "GATHERING"
  THEN IF ~Truthy(r.dynamic_schema) THEN [r EXCEPT !.pc = "infer"] ELSE WithSchema(r)
  ELSE [r EXCEPT !.pc = "save"]

\* Dispatch without the COMPLETED branch: whatever is not GATHERING is
\* taken to await confirmation.
DispatchWithoutCompleted(r) ==
  IF r.thread_status = "GATHERING"
  THEN GatheringBlock(r)
  ELSE [r EXCEPT !.pc = "analysis"]

\* The if / elif on thread_status that opens the try block.
Dispatch(r) ==
  CASE r.thread_status = "COMPLETED" ->
         GatheringBlock([r EXCEPT !.ai_response_content = Raw(AlreadyFinalizedReply)])
    [] r.thread_status = "AWAITING_CONFIRMATION" -> [r EXCEPT !.pc = "analysis"]
    [] OTHER -> GatheringBlock(r)

\* handle_chat up to and including find_one_and_update and the locals read
\* from the returned document.
Load(u, t, m, doc) ==
  Dispatch([Idle EXCEPT !.user_id = u, !.thread_id = t, !.message_content = m,
                        !.loaded = doc,
                        !.messages = Append(doc.messages,
                                            [role |-> "user", content |-> m]),
                        !.dynamic_schema = doc.dynamic_schema,
                        !.filled_slots = doc.filled_slots,
                        !.thread_status = doc.status])

\* IsConfirmed as a substring test instead of an equality.
MentionsConfirmed(decision) == decision.ok /\ Contains(decision.text, "CONFIRMED")

\* user_decision == "CONFIRMED"
IsConfirmed(decision) == decision.ok /\ decision.text = <<"CONFIRMED">>

\* the loop that replaces every str value by value.capitalize()
CapitalizeSlots(fs) ==
  [k \in DOMAIN fs |-> IF fs[k].t = "str" THEN StrV(Capitalize(fs[k].v)) ELSE fs[k]]

\* {**dynamic_schema, **final_intent_data}
MergeIntent(schema, fs) ==
  [k \in DOMAIN schema.val \cup {"filledSlots"} |->
     IF k = "filledSlots" THEN fs ELSE schema.val[k]]

\* new_intent before the embedding is added
NewIntent(r) ==
  [threadId |-> r.thread_id, userId |-> r.user_id,
   intent |-> MergeIntent(r.dynamic_schema, r.filled_slots),
   vector_embedding |-> Raised]

\* AllSlotsFilled as an equality instead of a substring test.
IsAllSlotsFilled(resp) == resp.ok /\ resp.text = <<"ALL_SLOTS_FILLED">>

\* next_step_response and "ALL_SLOTS_FILLED" in next_step_response
AllSlotsFilled(resp) == HasText(resp) /\ Contains(resp.text, "ALL_SLOTS_FILLED")

\* FinalReply without the apology default.
ReplyAsIs(r) == r.ai_response_content.text

\* `if not ai_response_content:` gives the apology, else the content stands
FinalReply(r) ==
  IF HasText(r.ai_response_content) THEN r.ai_response_content.text ELSE ApologyReply

\* WithModelMessage overwriting the history instead of appending to it.
OnlyModelMessage(r) == <<[role |-> "model", content |-> FinalReply(r)]>>

\* thread['messages'].append({"role": "model", ...})
WithModelMessage(r) ==
  Append(r.messages, [role |-> "model", content |-> FinalReply(r)])

\* Bookkeeping of a turn: the collaborator calls made, those that raised,
\* whether a response parsed to something that is not a JSON object, and
\* the thread fields written.
Called(r, what, resp) ==
  [r EXCEPT !.calls = Append(@, what),
            !.failed = IF resp.ok THEN @ ELSE @ \cup {what}]
Malformed(r, parsed) ==
  [r EXCEPT !.malformed = @ \/ (parsed.ok /\ parsed.value.kind # "dict")]
Wrote(r, fields) == [r EXCEPT !.wrote = @ \cup fields]


\* ------------------------------------------------------------- actions
At(h, pc) == req[h].pc = pc

Set(h, r) == req' = [req EXCEPT ![h] = r]

\* No request is being processed.
Quiescent == \A h \in Handlers : req[h].pc \in {"idle", "done"}

\* The text of the user message of the next turn.
NextMessage == <<"user message", ToString(turns + 1)>>

\* POST /chat arrives at handler h: validation, then the upsert that loads
\* or creates the thread, then the dispatch on its status.
HandleChat(h, u, t, m) ==
  /\ req[h].pc \in {"idle", "done"}
  /\ turns' = turns + 1
  /\ IF ~AllFieldsPresent(u, t, m)
     THEN /\ Set(h, [Idle EXCEPT !.pc = "done", !.http = 400])
          /\ UNCHANGED threads
     ELSE LET found == FindOneAndUpdate(threads, t, u)
          IN  /\ threads' = found.coll
              /\ Set(h, Load(u, t, m, found.doc))
  /\ UNCHANGED <<intents, emitted, backfill, confirmation_prompt>>

\* generate_gemini_content on the confirmation-analysis prompt.
ConfirmationAnalysis(h) ==
  /\ At(h, "analysis")
  /\ \E raw \in AnalysisResponses :
       LET decision == GenerateGeminiContent(raw)
           r == [Called(req[h], "analysis", decision) EXCEPT !.user_decision = decision]
       IN  Set(h, IF IsConfirmed(decision)
                  THEN [r EXCEPT !.filled_slots = CapitalizeSlots(@),
                                 !.pc = "find_intent"]
                  ELSE [r EXCEPT !.pc = "reset"])
  /\ UNCHANGED <<threads, intents, emitted, turns, backfill, confirmation_prompt>>

\* intents_collection.find_one({"threadId": thread_id}), then new_intent.
FindIntent(h) ==
  /\ At(h, "find_intent")
  /\ LET r == req[h]
     IN  Set(h, IF IntentExists(intents, r.thread_id)
                THEN [r EXCEPT !.ai_response_content = Raw(SuccessReply),
                               !.pc = "set_completed"]
                ELSE IF r.dynamic_schema.kind # "dict"
                     THEN ServiceFailure(r)
                     ELSE [r EXCEPT !.new_intent = NewIntent(r), !.pc = "embed"])
  /\ UNCHANGED <<threads, intents, emitted, turns, backfill, confirmation_prompt>>

\* WithEmbedding with the embedding call outside its try / except.
WithEmbeddingOrFail(r, e) ==
  IF e.ok
  THEN [Called(r, "embedding", e) EXCEPT
          !.new_intent = [@ EXCEPT !.vector_embedding = e], !.pc = "insert"]
  ELSE ServiceFailure(Called(r, "embedding", e))

\* new_intent['vector_embedding'] = embedding_response['embedding'], or the
\* None it was initialised with when the call raised.
WithEmbedding(r, e) ==
  [Called(r, "embedding", e) EXCEPT
     !.new_intent = [@ EXCEPT !.vector_embedding = e], !.pc = "insert"]

\* genai.embed_content inside its own try / except.
EmbedContent(h) ==
  /\ At(h, "embed")
  /\ \E e \in EmbeddingResponses :
       Set(h, WithEmbedding(req[h], e))
  /\ UNCHANGED <<threads, intents, emitted, turns, backfill, confirmation_prompt>>

\* intents_collection.insert_one(new_intent)
InsertIntent(h) ==
  /\ At(h, "insert")
  /\ intents' = Append(intents, req[h].new_intent)
  /\ Set(h, [req[h] EXCEPT !.inserted = TRUE, !.pc = "emit"])
  /\ UNCHANGED <<threads, emitted, turns, backfill, confirmation_prompt>>

\* socketio.emit('new_intent', new_intent)
EmitNewIntent(h) ==
  /\ At(h, "emit")
  /\ emitted' = Append(emitted, req[h].new_intent)
  /\ Set(h, [req[h] EXCEPT !.emits = @ + 1,
                           !.ai_response_content = Raw(SuccessReply),
                           !.pc = "set_completed"])
  /\ UNCHANGED <<threads, intents, turns, backfill, confirmation_prompt>>

\* update_one(... {"status": "COMPLETED"})
SetCompleted(h) ==
  /\ At(h, "set_completed")
  /\ threads' = UpdateOne(threads, req[h].thread_id, [status |-> "COMPLETED"])
  /\ Set(h, GatheringBlock(Wrote(req[h], {"status"})))
  /\ UNCHANGED <<intents, emitted, turns, backfill, confirmation_prompt>>

\* The else branch: update_one resetting status, schema and slots.
ResetForCorrection(h) ==
  /\ At(h, "reset")
  /\ threads' = UpdateOne(threads, req[h].thread_id,
                          [status |-> "GATHERING", dynamic_schema |-> NoneVal,
                           filled_slots |-> EmptyMap])
  /\ Set(h, GatheringBlock(
              [Wrote(req[h], {"status", "dynamic_schema", "filled_slots"}) EXCEPT
                 !.dynamic_schema = NoneVal,
                 !.ai_response_content = Raw(ReevaluateReply)]))
  /\ UNCHANGED <<intents, emitted, turns, backfill, confirmation_prompt>>

\* generate_gemini_content on the schema prompt, then json.loads.
InferSchema(h) ==
  /\ At(h, "infer")
  /\ \E raw \in SchemaResponses :
       LET cleaned == GenerateGeminiContent(raw)
           r == [Called(req[h], "schema", cleaned) EXCEPT
                   !.cleaned_response_text = cleaned]
           parsed == JsonLoads(StripFences(cleaned.text))
       IN  Set(h, IF HasText(cleaned) /\ cleaned.text # <<"UNCLEAR">> /\ parsed.ok
                  THEN [Malformed(r, parsed) EXCEPT
                          !.dynamic_schema = parsed.value,
                          !.pc = "persist_schema"]
                  ELSE WithSchema(r))
  /\ UNCHANGED <<threads, intents, emitted, turns, backfill, confirmation_prompt>>

\* update_one(... {"dynamic_schema": dynamic_schema})
PersistSchema(h) ==
  /\ At(h, "persist_schema")
  /\ threads' = UpdateOne(threads, req[h].thread_id,
                          [dynamic_schema |-> req[h].dynamic_schema])
  /\ Set(h, WithSchema(Wrote(req[h], {"dynamic_schema"})))
  /\ UNCHANGED <<intents, emitted, turns, backfill, confirmation_prompt>>

\* generate_gemini_content on the slot-extraction prompt, then json.loads
\* and the test for the filledSlots key.
ExtractSlots(h) ==
  /\ At(h, "extract")
  /\ \E raw \in ExtractionResponses :
       LET text == GenerateGeminiContent(raw)
           parsed == JsonLoads(StripFences(text.text))
           r == [Malformed(Called(req[h], "extraction", text),
                           IF HasText(text) THEN parsed ELSE JsonLoads(<< >>))
                   EXCEPT !.filled_slots = EmptyMap]
       IN  Set(h, IF ~(HasText(text) /\ parsed.ok)
                  THEN [r EXCEPT !.pc = "guide"]
                  ELSE CASE parsed.value.kind = "dict" ->
                              IF "filledSlots" \in DOMAIN parsed.value.val
                              THEN [r EXCEPT !.filled_slots = parsed.value.val.filledSlots,
                                             !.pc = "persist_slots"]
                              ELSE [r EXCEPT !.pc = "guide"]
                         [] parsed.value.kind = "list" -> [r EXCEPT !.pc = "guide"]
                         [] OTHER -> ServiceFailure(r))
  /\ UNCHANGED <<threads, intents, emitted, turns, backfill, confirmation_prompt>>

\* update_one(... {"filled_slots": filled_slots})
PersistFilledSlots(h) ==
  /\ At(h, "persist_slots")
  /\ threads' = UpdateOne(threads, req[h].thread_id,
                          [filled_slots |-> req[h].filled_slots])
  /\ Set(h, [Wrote(req[h], {"filled_slots"}) EXCEPT !.pc = "guide"])
  /\ UNCHANGED <<intents, emitted, turns, backfill, confirmation_prompt>>

\* generate_gemini_content on the guided conversational prompt.
NextQuestion(h) ==
  /\ At(h, "guide")
  /\ \E raw \in GuidanceResponses :
       LET next_step_response == GenerateGeminiContent(raw)
           r == [Called(req[h], "guidance", next_step_response) EXCEPT
                   !.next_step_response = next_step_response]
       IN  Set(h, IF AllSlotsFilled(next_step_response)
                  THEN [r EXCEPT !.pc = "set_awaiting"]
                  ELSE [r EXCEPT !.ai_response_content = next_step_response,
                                 !.pc = "save"])
  /\ UNCHANGED <<threads, intents, emitted, turns, backfill, confirmation_prompt>>

\* update_one(... {"status": "AWAITING_CONFIRMATION"})
SetAwaitingConfirmation(h) ==
  /\ At(h, "set_awaiting")
  /\ threads' = UpdateOne(threads, req[h].thread_id,
                          [status |-> "AWAITING_CONFIRMATION"])
  /\ Set(h, [Wrote(req[h], {"status"}) EXCEPT !.pc = "summary"])
  /\ UNCHANGED <<intents, emitted, turns, backfill, confirmation_prompt>>

\* get_confirmation_prompt(filled_slots, user_id, dynamic_schema): the slot
\* values that the summary put before the user is made from.
ConfirmationPrompt(r) ==
  [kind |-> "prompt", user_id |-> r.user_id, thread_id |-> r.thread_id,
   filled_slots |-> r.filled_slots]

\* generate_gemini_content on the confirmation prompt; the prompt of the
\* latest such call is kept.
ConfirmationSummary(h) ==
  /\ At(h, "summary")
  /\ \E raw \in SummaryResponses :
       Set(h, [Called(req[h], "summary", raw) EXCEPT
                 !.ai_response_content = GenerateGeminiContent(raw),
                 !.pc = "save"])
  /\ confirmation_prompt' = ConfirmationPrompt(req[h])
  /\ UNCHANGED <<threads, intents, emitted, turns, backfill>>

\* generate_gemini_content on the role-tagged message history.
FallbackCompletion(h) ==
  /\ At(h, "fallback")
  /\ \E raw \in FallbackResponses :
       Set(h, [Called(req[h], "fallback", raw) EXCEPT
                 !.ai_response_content = GenerateGeminiContent(raw),
                 !.pc = "save"])
  /\ UNCHANGED <<threads, intents, emitted, turns, backfill, confirmation_prompt>>

\* The apology default, the append of the model message and the final
\* update_one(... {"messages": thread['messages']}).
SaveMessages(h) ==
  /\ At(h, "save")
  /\ LET r == req[h]
         msgs == WithModelMessage(r)
     IN  /\ threads' = UpdateOne(threads, r.thread_id, [messages |-> msgs])
         /\ Set(h, [Wrote(r, {"messages"}) EXCEPT
                      !.messages = msgs,
                      !.branch_reply = r.ai_response_content,
                      !.ai_response_content = Raw(FinalReply(r)),
                      !.http = 200,
                      !.pc = "done"])
  /\ UNCHANGED <<intents, emitted, turns, backfill, confirmation_prompt>>

Step(h) ==
  \/ ConfirmationAnalysis(h)
  \/ FindIntent(h)
  \/ EmbedContent(h)
  \/ InsertIntent(h)
  \/ EmitNewIntent(h)
  \/ SetCompleted(h)
  \/ ResetForCorrection(h)
  \/ InferSchema(h)
  \/ PersistSchema(h)
  \/ ExtractSlots(h)
  \/ PersistFilledSlots(h)
  \/ NextQuestion(h)
  \/ SetAwaitingConfirmation(h)
  \/ ConfirmationSummary(h)
  \/ FallbackCompletion(h)
  \/ SaveMessages(h)

\* Turns processed one at a time: a request is taken only when none is in
\* flight.
SerialHandleChat ==
  \E u \in Users \cup {Missing}, t \in ThreadIds \cup {Missing},
     m \in {NextMessage, << >>} :
       /\ Quiescent
       /\ turns < MaxTurns
       /\ HandleChat(1, u, t, m)

\* Turns taken while others are in flight; the free handlers are
\* interchangeable, so the request goes to the first of them.
ConcurrentHandleChat ==
  \E h \in Handlers, u \in Users \cup {Missing}, t \in ThreadIds \cup {Missing},
     m \in {NextMessage, << >>} :
       /\ turns < MaxConcTurns
       /\ \A g \in Handlers : g < h => req[g].pc \notin {"idle", "done"}
       /\ HandleChat(h, u, t, m)

Next == SerialHandleChat \/ \E h \in Handlers : Step(h)

NextConc == ConcurrentHandleChat \/ \E h \in Handlers : Step(h)

Spec == Init /\ [][Next]_vars

SpecConc == Init /\ [][NextConc]_vars


\* ------------------------------------------------- embedding backfill
\* intent_embeddings.py run against the collection of Intents while the
\* chat handler serves turns.  A stored record's _id is its position in the
\* collection: records are never deleted or reordered.
MaxPasses == 2
MaxBackfillTurns == 3

\* A thread finalized before the run, under a threadId of its own, and its
\* Intent, stored without embedding.
LegacyThreadId == NumThreadIds + 1

LegacyThread ==
  [NewThread(1, LegacyThreadId) EXCEPT
     !.messages = <<[role |-> "user", content |-> <<"yes">>],
                    [role |-> "model", content |-> SuccessReply]>>,
     !.dynamic_schema = Dict(SchemaReq),
     !.filled_slots = SlotsCity,
     !.status = "COMPLETED"]

LegacyIntent ==
  [threadId |-> LegacyThreadId, userId |-> 1,
   intent |-> MergeIntent(Dict(SchemaReq), CapitalizeSlots(SlotsCity)),
   vector_embedding |-> Raised]

InitBackfill ==
  /\ threads = <<LegacyThread>>
  /\ intents = <<LegacyIntent>>
  /\ emitted = << >>
  /\ req = [h \in Handlers |-> Idle]
  /\ turns = 0
  /\ backfill = BackfillIdle
  /\ confirmation_prompt = NoneVal

\* dict.get(key, default)
Get(d, key, default) == IF key \in DOMAIN d THEN d[key] ELSE default

\* create_composite_text_for_embedding: the three labelled parts in order;
\* the text neither starts nor ends with white space, so strip() keeps it.
CreateCompositeText(record) ==
  LET intent == Get(record, "intent", EmptyMap)
  IN  <<"displayName:", Get(intent, "displayName", ""),
        "description:", Get(intent, "description", ""),
        "slots:", Get(intent, "slots", << >>)>>

\* genai.embed_content of the script: it raises, or it answers with the
\* vector of the text, the same vector for the same text.
EmbeddingOf(text) == Raw(<<"vec of", text>>)
BackfillEmbeddingResponses(text) == {Raised, EmbeddingOf(text)}

\* SetEmbedding as a replacement of the whole record.
ReplaceRecord(record, vec, now) ==
  [vector_embedding |-> vec, updated_at |-> now]

\* {"$set": {"vector_embedding": ..., "updated_at": datetime.utcnow()}}
SetEmbedding(record, vec, now) ==
  [k \in DOMAIN record \cup {"vector_embedding", "updated_at"} |->
     CASE k = "vector_embedding" -> vec
       [] k = "updated_at" -> now
       [] OTHER -> record[k]]

\* The end of one iteration of `for record in all_records`.
NextRecord(b) ==
  IF b.i < Len(b.all_records)
  THEN [b EXCEPT !.pc = "embed", !.i = @ + 1, !.vector_embedding = Raised]
  ELSE [b EXCEPT !.pc = "idle", !.all_records = << >>, !.i = 0,
                 !.vector_embedding = Raised, !.passes = @ + 1]

\* all_records = list(collection.find({})), with the early return.
BackfillFind ==
  /\ backfill.pc = "idle"
  /\ backfill.passes < MaxPasses
  /\ backfill' =
       IF intents = << >>
       THEN [backfill EXCEPT !.passes = @ + 1]
       ELSE [backfill EXCEPT
               !.pc = "embed", !.i = 1,
               !.all_records = [i \in 1..Len(intents) |->
                                  [id |-> i, record |-> intents[i]]]]
  /\ UNCHANGED <<threads, intents, emitted, req, turns, confirmation_prompt>>

\* genai.embed_content on the composite text of the record; the except
\* clause of the loop body moves on to the next record.
BackfillEmbed ==
  /\ backfill.pc = "embed"
  /\ \E e \in BackfillEmbeddingResponses(
               CreateCompositeText(backfill.all_records[backfill.i].record)) :
       backfill' = IF e.ok
                   THEN [backfill EXCEPT !.pc = "update", !.vector_embedding = e]
                   ELSE NextRecord(backfill)
  /\ UNCHANGED <<threads, intents, emitted, req, turns, confirmation_prompt>>

\* collection.update_one({"_id": record_id}, {"$set": ...}); utcnow() is
\* later at every call.
BackfillUpdate ==
  /\ backfill.pc = "update"
  /\ intents' = [intents EXCEPT ![backfill.all_records[backfill.i].id] =
                   SetEmbedding(@, backfill.vector_embedding, backfill.now + 1)]
  /\ backfill' = NextRecord([backfill EXCEPT !.now = @ + 1])
  /\ UNCHANGED <<threads, emitted, req, turns, confirmation_prompt>>

\* Turns served one at a time while the script runs.
LiveHandleChat ==
  \E u \in Users \cup {Missing}, t \in ThreadIds \cup {Missing},
     m \in {NextMessage, << >>} :
       /\ Quiescent
       /\ turns < MaxBackfillTurns
       /\ HandleChat(1, u, t, m)

NextBackfill ==
  \/ LiveHandleChat
  \/ \E h \in Handlers : Step(h)
  \/ BackfillFind
  \/ BackfillEmbed
  \/ BackfillUpdate

SpecBackfill == InitBackfill /\ [][NextBackfill]_vars


\* ------------------------------------------------------------- claims
\* The stored thread of the request held by handler record r.
OwnThread(r) == threads[First(MatchThreadIdAndUser(threads, r.thread_id, r.user_id))]

\* The stored thread that update_one({"threadId": ...}) selects for r.
SelectedThread(r) == threads[First(MatchThreadId(threads, r.thread_id))]

\* The turn held by handler h has ended after passing input validation.
Ended(h) == req[h].pc = "done" /\ req[h].http # 400

\* The turn held by handler h has ended with a reply (HTTP 200).
Replied(h) == req[h].pc = "done" /\ req[h].http = 200

StatusEdges ==
  {<<"GATHERING", "AWAITING_CONFIRMATION">>,
   <<"AWAITING_CONFIRMATION", "COMPLETED">>,
   <<"AWAITING_CONFIRMATION", "GATHERING">>}

\* C1: with turns processed one at a time, the persisted status of every
\* thread changes only along GATHERING -> AWAITING_CONFIRMATION,
\* AWAITING_CONFIRMATION -> COMPLETED or AWAITING_CONFIRMATION -> GATHERING,
\* so a COMPLETED thread never changes status again.
C1_StatusFollowsEdges ==
  [][\A i \in 1..Len(threads) :
       threads'[i].status # threads[i].status
         => <<threads[i].status, threads'[i].status>> \in StatusEdges]_vars

\* C2: a turn that starts in AWAITING_CONFIRMATION and whose analysis is not
\* CONFIRMED runs schema inference within the same turn and replies with the
\* result of GATHERING processing, not with the re-evaluate placeholder.
C2_CorrectionFallsThrough ==
  \A h \in Handlers :
    (/\ Ended(h)
     /\ req[h].thread_status = "AWAITING_CONFIRMATION"
     /\ req[h].user_decision # Raw(<<"CONFIRMED">>))
    => /\ Contains(req[h].calls, "schema")
       /\ req[h].ai_response_content # Raw(ReevaluateReply)

SchemaWithoutRequiredSlot(r) ==
  /\ r.thread_status = "GATHERING"
  /\ r.dynamic_schema.kind = "dict"
  /\ "slots" \in DOMAIN r.dynamic_schema.val
  /\ \A i \in 1..Len(r.dynamic_schema.val.slots) :
       ~r.dynamic_schema.val.slots[i].required

\* C4: a turn whose schema (loaded or just inferred) has no required slot
\* makes no slot-extraction, next-question or confirmation-summary call,
\* writes neither filledSlots nor status, leaves the status GATHERING and
\* replies with the fixed clarification request.
C4_NoRequiredSlotNoExtraction ==
  \A h \in Handlers :
    (Ended(h) /\ SchemaWithoutRequiredSlot(req[h]))
    => /\ \A c \in {"extraction", "guidance", "summary"} : ~Contains(req[h].calls, c)
       /\ req[h].wrote \cap {"filled_slots", "status"} = {}
       /\ OwnThread(req[h]).status = "GATHERING"
       /\ req[h].http = 200
       /\ req[h].ai_response_content = Raw(ClarificationReply)

\* C4 witness: a later turn on a thread whose persisted schema has no
\* required slot ended with the clarification request.
C4_Witness ==
  \E h \in Handlers :
    /\ Ended(h)
    /\ SchemaWithoutRequiredSlot(req[h])
    /\ req[h].loaded.dynamic_schema = Dict(SchemaOpt)
    /\ Len(req[h].loaded.messages) >= 2
    /\ req[h].ai_response_content = Raw(ClarificationReply)

\* A CONFIRMED turn that found an Intent for its threadId already stored.
ConfirmedOnExistingIntent(h) ==
  /\ Replied(h)
  /\ req[h].thread_status = "AWAITING_CONFIRMATION"
  /\ req[h].user_decision = Raw(<<"CONFIRMED">>)
  /\ ~req[h].inserted

\* C5: with turns processed one at a time there is at most one Intent per
\* threadId; a CONFIRMED turn for a threadId that already has an Intent
\* inserts none, emits nothing, replies with the success message and leaves
\* the status COMPLETED.
C5_FinalizeIdempotent ==
  /\ \A t \in ThreadIds : Cardinality(MatchThreadId(intents, t)) <= 1
  /\ \A h \in Handlers :
       ConfirmedOnExistingIntent(h)
       => /\ Cardinality(MatchThreadId(intents, req[h].thread_id)) = 1
          /\ req[h].emits = 0
          /\ req[h].ai_response_content = Raw(SuccessReply)
          /\ OwnThread(req[h]).status = "COMPLETED"

\* C5 witness: a CONFIRMED turn ran on a thread that already had its Intent.
C5_Witness == \E h \in Handlers : ConfirmedOnExistingIntent(h)


\* C6: also when turns on one threadId interleave call by call, no two
\* stored Intents carry the same threadId.
C6_OneIntentPerThreadInterleaved ==
  \A i, j \in 1..Len(intents) :
    i # j => intents[i].threadId # intents[j].threadId

\* The thread as loaded, with this turn's user message and reply appended.
MessagesAfterTurn(r) ==
  r.loaded.messages
    \o <<[role |-> "user", content |-> r.message_content],
         [role |-> "model", content |-> r.ai_response_content.text]>>

\* C7: a turn on a COMPLETED thread calls no collaborator, inserts and emits
\* nothing, replies with the already-finalized text and changes nothing of
\* the stored thread except appending the user message and that reply.
C7_CompletedShortCircuits ==
  \A h \in Handlers :
    (Ended(h) /\ req[h].loaded.status = "COMPLETED")
    => /\ req[h].calls = << >>
       /\ ~req[h].inserted
       /\ req[h].emits = 0
       /\ req[h].http = 200
       /\ req[h].ai_response_content = Raw(AlreadyFinalizedReply)
       /\ req[h].wrote = {"messages"}
       /\ OwnThread(req[h]) =
            [req[h].loaded EXCEPT !.messages = MessagesAfterTurn(req[h])]

\* C7 witness: a turn on a COMPLETED thread has ended.
C7_Witness ==
  \E h \in Handlers :
    /\ Ended(h)
    /\ req[h].loaded.status = "COMPLETED"
    /\ Len(OwnThread(req[h]).messages) = Len(req[h].loaded.messages) + 2

MarkerInNextStep(r) ==
  r.next_step_response.ok /\ Contains(r.next_step_response.text, "ALL_SLOTS_FILLED")

InferenceGaveNoSchema(r) ==
  /\ r.thread_status = "GATHERING"
  /\ r.loaded.dynamic_schema = NoneVal
  /\ Contains(r.calls, "schema")
  /\ \/ ~r.cleaned_response_text.ok
     \/ r.cleaned_response_text.text = <<"UNCLEAR">>
     \/ ~JsonLoads(StripFences(r.cleaned_response_text.text)).ok

\* C11: a GATHERING turn without schema whose inference fails, answers
\* UNCLEAR or does not parse persists no schema, leaves status GATHERING and
\* filledSlots untouched, and replies with the generic completion over the
\* message history, or with the apology when that call fails too; it does
\* not end in an error.
C11_NoSchemaFallsBack ==
  \A h \in Handlers :
    (Ended(h) /\ InferenceGaveNoSchema(req[h]))
    => /\ req[h].http = 200
       /\ req[h].wrote = {"messages"}
       /\ OwnThread(req[h]).dynamic_schema = NoneVal
       /\ OwnThread(req[h]).status = "GATHERING"
       /\ OwnThread(req[h]).filled_slots = req[h].loaded.filled_slots
       /\ req[h].calls = <<"schema", "fallback">>
       /\ req[h].ai_response_content =
            IF HasText(req[h].branch_reply) THEN req[h].branch_reply
            ELSE Raw(ApologyReply)

\* C11 witness: inference answered UNCLEAR and the reply is the generic
\* completion.
C11_Witness ==
  \E h \in Handlers :
    /\ Replied(h)
    /\ req[h].cleaned_response_text = Raw(<<"UNCLEAR">>)
    /\ OwnThread(req[h]).dynamic_schema = NoneVal
    /\ req[h].ai_response_content = Raw(<<"Hello!">>)

\* C12: after every slot-extraction pass the persisted filledSlots of the
\* thread equal the map derived in that pass (the parsed filledSlots, or the
\* empty map when the call failed, did not parse or lacked the key), so no
\* earlier value survives a later pass.
C12_PersistedSlotsAreDerivedSlots ==
  \A h \in Handlers :
    (req[h].pc = "guide" /\ Contains(req[h].calls, "extraction"))
    => OwnThread(req[h]).filled_slots = req[h].filled_slots

\* C13: a turn on one thread, a thread being identified by userId and
\* threadId together, changes the persisted state of no other thread; a turn
\* of one user on a threadId leaves another user's thread of that threadId
\* as it was.
C13_TurnTouchesOnlyItsThread ==
  [][\A i \in 1..Len(threads) :
       (threads[i].userId # req'[1].user_id
          \/ threads[i].threadId # req'[1].thread_id)
       => threads'[i] = threads[i]]_vars

\* A CONFIRMED turn that found no Intent for its threadId and whose
\* embedding call raised.
ConfirmedWithFailedEmbedding(h) ==
  /\ Ended(h)
  /\ req[h].thread_status = "AWAITING_CONFIRMATION"
  /\ req[h].user_decision = Raw(<<"CONFIRMED">>)
  /\ "embedding" \in req[h].failed

\* C14: when the embedding call fails in a CONFIRMED turn on a thread
\* without Intent, the Intent is still inserted, with a null embedding, the
\* notification is emitted, the status becomes COMPLETED and the reply is
\* the success message.
C14_EmbeddingFailureStillFinalizes ==
  \A h \in Handlers :
    ConfirmedWithFailedEmbedding(h)
    => /\ req[h].http = 200
       /\ req[h].inserted
       /\ req[h].new_intent.vector_embedding = Raised
       /\ \E i \in 1..Len(intents) : intents[i] = req[h].new_intent
       /\ req[h].emits = 1
       /\ \E i \in 1..Len(emitted) : emitted[i] = req[h].new_intent
       /\ OwnThread(req[h]).status = "COMPLETED"
       /\ req[h].ai_response_content = Raw(SuccessReply)

\* C14 witness: a finalizing turn whose embedding call raised has replied.
C14_Witness ==
  \E h \in Handlers :
    /\ ConfirmedWithFailedEmbedding(h)
    /\ req[h].inserted
    /\ \E i \in 1..Len(intents) : intents[i].vector_embedding = Raised

\* C15: a request that lacks userId, threadId or message is rejected with
\* the client error before any store access: only complete requests get past
\* validation, and the rejecting step creates or modifies no thread, creates
\* no Intent, emits nothing and calls no model.
C15_IncompleteRequestRejectedUntouched ==
  [][\A h \in Handlers :
       /\ (req'[h].pc # "idle" /\ req'[h].http # 400)
          => /\ req'[h].user_id # Missing
             /\ req'[h].thread_id # Missing
             /\ req'[h].message_content # << >>
       /\ req'[h].http = 400
          => /\ req'[h].pc = "done"
             /\ req'[h].calls = << >>
             /\ req'[h].wrote = {}
             /\ threads' = threads
             /\ intents' = intents
             /\ emitted' = emitted]_vars

\* C15 witness: a request was rejected while a thread was already stored.
C15_Witness ==
  \E h \in Handlers :
    req[h].pc = "done" /\ req[h].http = 400 /\ Len(threads) > 0

\* The turn held by handler h has inserted an Intent and ended.
Finalized(h) == Ended(h) /\ req[h].inserted

\* The slots of the inserted Intent against the slots loaded from the thread.
IntentSlots(r) == r.new_intent.intent.filledSlots
LoadedSlots(r) == r.loaded.filled_slots

\* C16: in the persisted Intent every string slot value is the thread's
\* persisted value with only its first letter upper-cased, all other
\* characters unchanged; values that are not strings are unchanged.
C16_OnlyFirstLetterChanges ==
  \A h \in Handlers :
    Finalized(h)
    => /\ DOMAIN IntentSlots(req[h]) = DOMAIN LoadedSlots(req[h])
       /\ \A k \in DOMAIN LoadedSlots(req[h]) :
            IntentSlots(req[h])[k] =
              IF LoadedSlots(req[h])[k].t = "str"
              THEN StrV(UpperFirst(LoadedSlots(req[h])[k].v))
              ELSE LoadedSlots(req[h])[k]

\* C16 as the code has it: every string slot value of the inserted Intent is
\* the value the turn loaded from the thread with its first character
\* upper-cased and every other character lower-cased; values that are not
\* strings are unchanged.
C16_SlotsAreSentenceCased ==
  \A h \in Handlers :
    Finalized(h)
    => /\ DOMAIN IntentSlots(req[h]) = DOMAIN LoadedSlots(req[h])
       /\ \E i \in 1..Len(intents) : intents[i] = req[h].new_intent
       /\ \A k \in DOMAIN LoadedSlots(req[h]) :
            LET old == LoadedSlots(req[h])[k]
                new == IntentSlots(req[h])[k]
            IN  IF old.t = "str"
                THEN /\ new.t = "str"
                     /\ Len(new.v) = Len(old.v)
                     /\ \A i \in 1..Len(old.v) :
                          new.v[i] = IF i = 1 THEN UpperChar(old.v[i])
                                     ELSE LowerChar(old.v[i])
                ELSE new = old

\* C16 witness: an Intent was inserted whose string slot had an upper-case
\* letter after the first and whose other slot is a number.
C16_Witness ==
  \E h \in Handlers :
    /\ Finalized(h)
    /\ LoadedSlots(req[h]) = SlotsCityBudget
    /\ IntentSlots(req[h]).city = StrV(<<"N", "y">>)
    /\ IntentSlots(req[h]).budget = NumV(7)

\* A record without the fields named in keys.
Without(record, keys) == [k \in DOMAIN record \ keys |-> record[k]]

\* The step is one of the backfill script.
BackfillStep == backfill' # backfill

\* The step keeps every stored record but for the fields named in keys, and
\* keeps their number and order.
IntentsKeptBut(keys) ==
  /\ Len(intents') = Len(intents)
  /\ \A i \in 1..Len(intents) :
       Without(intents'[i], keys) = Without(intents[i], keys)

\* C17: the backfill pass touches only the embedding and is idempotent: a
\* step of it changes no field of any record other than its embedding,
\* inserts and deletes no record, changes no thread, and leaves a record it
\* has processed before as that earlier pass left it.
C17_BackfillTouchesOnlyEmbedding ==
  [][BackfillStep
     => /\ threads' = threads
        /\ IntentsKeptBut({"vector_embedding"})
        /\ \A i \in 1..Len(intents) :
             "updated_at" \in DOMAIN intents[i] => intents'[i] = intents[i]]_vars

\* C17 as the code has it: a step of the backfill pass changes no thread,
\* inserts and deletes no record and changes no field of any record other
\* than vector_embedding and updated_at; every record a pass has updated
\* holds the embedding of its own composite text, whatever the number of
\* passes; and a step of a live turn changes no stored Intent.
C17_BackfillTouchesEmbeddingAndTimestamp ==
  [][/\ BackfillStep
        => /\ threads' = threads
           /\ emitted' = emitted
           /\ req' = req
           /\ IntentsKeptBut({"vector_embedding", "updated_at"})
     /\ \A i \in 1..Len(intents') :
          "updated_at" \in DOMAIN intents'[i]
          => intents'[i].vector_embedding =
               EmbeddingOf(CreateCompositeText(intents'[i]))
     /\ req' # req
        => /\ Len(intents') >= Len(intents)
           /\ \A i \in 1..Len(intents) : intents'[i] = intents[i]]_vars

\* C17 witness: two passes have ended, each having updated a record, beside
\* a live turn that inserted an Intent, and every record has been updated.
C17_Witness ==
  /\ backfill.passes = MaxPasses
  /\ backfill.now >= 3
  /\ Len(intents) = 2
  /\ \A i \in 1..Len(intents) : "updated_at" \in DOMAIN intents[i]

\* The thread that the turn loaded had a schema, with no required slot.
LoadedSchemaWithoutRequiredSlot(r) ==
  /\ r.loaded.dynamic_schema.kind = "dict"
  /\ Truthy(r.loaded.dynamic_schema)
  /\ ~RequiredSlotsExist(r.loaded.dynamic_schema)

\* C18: a thread whose persisted schema has zero required slots is not
\* stuck: a later turn of its user infers a schema again, which lets the
\* thread reach slot extraction and AWAITING_CONFIRMATION.  Whether a turn
\* infers is decided by the loaded thread alone, before any model call, so
\* some continuation infers again exactly when every turn on such a thread
\* does.
C18_VagueSchemaIsInferredAgain ==
  \A h \in Handlers :
    (Replied(h) /\ LoadedSchemaWithoutRequiredSlot(req[h]))
    => Contains(req[h].calls, "schema")

\* C19: COMPLETED stays terminal when turns on the same thread interleave
\* call by call: once the persisted status of a thread is COMPLETED, no
\* later write of a turn on that thread changes it.
C19_CompletedStaysUnderInterleaving ==
  [][\A i \in 1..Len(threads) : \A h \in Handlers :
       (/\ threads[i].status = "COMPLETED"
        /\ req'[h] # req[h]
        /\ req'[h].user_id = threads[i].userId
        /\ req'[h].thread_id = threads[i].threadId)
       => threads'[i].status = "COMPLETED"]_vars

\* C20: with turns processed one at a time, whenever the persisted status
\* of a thread is AWAITING_CONFIRMATION its persisted schema is not null
\* and has at least one required slot, so that a CONFIRMED turn has a schema
\* to build the Intent from.
C20_AwaitingHasRequiredSlotSchema ==
  \A i \in 1..Len(threads) :
    threads[i].status = "AWAITING_CONFIRMATION"
    => /\ threads[i].dynamic_schema.kind = "dict"
       /\ RequiredSlotsExist(threads[i].dynamic_schema)


\* ------------------------------------------------- failing insert_one
\* InsertRaised with the exception swallowed: the turn goes on to the emit.
InsertRaisedIgnored(r) ==
  [r EXCEPT !.failed = @ \cup {"insert_one"}, !.pc = "emit"]

\* insert_one raises: nothing is stored and the except clause of the
\* handler ends the turn.
InsertRaised(r) ==
  ServiceFailure([r EXCEPT !.failed = @ \cup {"insert_one"}])

\* intents_collection.insert_one(new_intent) raising.
InsertIntentRaises(h) ==
  /\ At(h, "insert")
  /\ Set(h, InsertRaised(req[h]))
  /\ UNCHANGED <<threads, intents, emitted, turns, backfill, confirmation_prompt>>

NextInsertFailure ==
  \/ SerialHandleChat
  \/ \E h \in Handlers : Step(h)
  \/ \E h \in Handlers : InsertIntentRaises(h)

SpecInsertFailure == Init /\ [][NextInsertFailure]_vars

\* The insert_one of the turn held by handler h raised and the turn ended.
InsertFailed(h) == req[h].pc = "done" /\ "insert_one" \in req[h].failed

\* C21: with turns processed one at a time, a thread whose persisted status
\* is COMPLETED has an Intent with its threadId in the intents collection:
\* the Intent is there before the status is set, and a turn whose insert
\* failed stores no Intent and leaves the status AWAITING_CONFIRMATION.
C21_CompletedHasIntent ==
  /\ \A i \in 1..Len(threads) :
       threads[i].status = "COMPLETED"
       => IntentExists(intents, threads[i].threadId)
  /\ \A h \in Handlers :
       req[h].pc = "set_completed" => IntentExists(intents, req[h].thread_id)
  /\ \A h \in Handlers :
       InsertFailed(h)
       => /\ req[h].http = 500
          /\ ~req[h].inserted
          /\ req[h].emits = 0
          /\ ~IntentExists(intents, req[h].thread_id)
          /\ OwnThread(req[h]).status = "AWAITING_CONFIRMATION"

\* C21 witness: a finalizing turn ended on a failed insert, its thread still
\* awaiting confirmation.
C21_Witness ==
  \E h \in Handlers :
    /\ InsertFailed(h)
    /\ OwnThread(req[h]).status = "AWAITING_CONFIRMATION"
    /\ intents = << >>


\* Two slot values are the same but for the case of the letters of a string.
SameUpToCase(a, b) ==
  /\ a.t = b.t
  /\ IF a.t = "str"
     THEN /\ Len(a.v) = Len(b.v)
          /\ \A i \in 1..Len(a.v) : LowerChar(a.v[i]) = LowerChar(b.v[i])
     ELSE a = b

\* C22: the slot values of a finalized Intent are the ones the user was
\* asked to confirm: the filledSlots that the CONFIRMED turn read from the
\* thread have the keys and, up to capitalization, the values of the map
\* passed to the confirmation-summary prompt in the turn that moved the
\* thread to AWAITING_CONFIRMATION, whatever extractions came before.
C22_IntentSlotsAreConfirmedSlots ==
  \A h \in Handlers :
    Finalized(h)
    => /\ confirmation_prompt.kind = "prompt"
       /\ confirmation_prompt.thread_id = req[h].thread_id
       /\ DOMAIN LoadedSlots(req[h]) = DOMAIN confirmation_prompt.filled_slots
       /\ \A k \in DOMAIN LoadedSlots(req[h]) :
            SameUpToCase(LoadedSlots(req[h])[k],
                         confirmation_prompt.filled_slots[k])


\* Every slot of the list marked required has a value in the map fs.
RequiredSlotsFilled(slots, fs) ==
  \A i \in 1..Len(slots) : slots[i].required => slots[i].name \in DOMAIN fs

\* C23: a thread is in AWAITING_CONFIRMATION, and an Intent is persisted,
\* only when every slot marked required in the schema has a value in
\* filledSlots: no persisted Intent lacks a value for a required slot of its
\* own schema.
C23_RequiredSlotsHaveValues ==
  /\ \A i \in 1..Len(intents) :
       RequiredSlotsFilled(intents[i].intent.slots, intents[i].intent.filledSlots)
  /\ \A i \in 1..Len(threads) :
       (/\ threads[i].status = "AWAITING_CONFIRMATION"
        /\ threads[i].dynamic_schema.kind = "dict"
        /\ "slots" \in DOMAIN threads[i].dynamic_schema.val)
       => RequiredSlotsFilled(threads[i].dynamic_schema.val.slots,
                              threads[i].filled_slots)

====
